---------------------------- MODULE Spec2Model ----------------------------
(***************************************************************************)
(* Model of the screenshot analyzer (src/app/api/analyze/route.ts): the    *)
(* upload validator validateFile and the response normalizer               *)
(* parseOpenRouterResponse.                                                *)
(*                                                                         *)
(* A JavaScript string is a sequence of characters; a character is a       *)
(* one-character TLA+ string, except U+2022 which is written "BULLET".     *)
(***************************************************************************)
EXTENDS Integers, Sequences, FiniteSets, TLC

(***************************************************************************)
(* Characters and the String.prototype methods the normalizer calls.       *)
(***************************************************************************)
\* the white space of String.prototype.trim and of \s that the texts hold
WhiteSpace == {" ", "\n", "\t", "\r", "\f"}

\* the white space of the JSON grammar
JsonWhiteSpace == {" ", "\n", "\t", "\r"}

DigitChars == <<"0", "1", "2", "3", "4", "5", "6", "7", "8", "9">>

IsDigit(c) == \E k \in 1..10 : DigitChars[k] = c

DigitVal(c) == (CHOOSE k \in 1..10 : DigitChars[k] = c) - 1

UpperChars == <<"A", "B", "C", "D", "E", "F", "G", "H", "I", "J", "K", "L", "M",
                "N", "O", "P", "Q", "R", "S", "T", "U", "V", "W", "X", "Y", "Z">>

LowerChars == <<"a", "b", "c", "d", "e", "f", "g", "h", "i", "j", "k", "l", "m",
                "n", "o", "p", "q", "r", "s", "t", "u", "v", "w", "x", "y", "z">>

LowerChar(c) ==
    IF \E k \in 1..26 : UpperChars[k] = c
    THEN LowerChars[CHOOSE k \in 1..26 : UpperChars[k] = c]
    ELSE c

\* String.prototype.toLowerCase
ToLowerCase(s) == [k \in 1..Len(s) |-> LowerChar(s[k])]

\* s.slice(from): the characters of s from the 1-based position from on
Drop(s, from) == SubSeq(s, from, Len(s))

RECURSIVE TrimStart(_)
TrimStart(s) ==
    IF s # <<>> /\ Head(s) \in WhiteSpace THEN TrimStart(Tail(s)) ELSE s

RECURSIVE TrimEnd(_)
TrimEnd(s) ==
    IF s # <<>> /\ s[Len(s)] \in WhiteSpace
    THEN TrimEnd(SubSeq(s, 1, Len(s) - 1))
    ELSE s

\* String.prototype.trim
Trim(s) == TrimEnd(TrimStart(s))

\* String.prototype.includes
Includes(s, sub) ==
    \E k \in 0..(Len(s) - Len(sub)) : SubSeq(s, k + 1, k + Len(sub)) = sub

\* String.prototype.startsWith
StartsWith(s, p) == Len(s) >= Len(p) /\ SubSeq(s, 1, Len(p)) = p

\* s.startsWith(p, at - 1) for a 1-based position at
MatchesAt(s, at, p) ==
    at + Len(p) - 1 <= Len(s) /\ SubSeq(s, at, at + Len(p) - 1) = p

\* String.prototype.split with a one-character separator
RECURSIVE SplitFrom(_, _, _)
SplitFrom(s, sep, cur) ==
    IF s = <<>> THEN <<cur>>
    ELSE IF Head(s) = sep THEN <<cur>> \o SplitFrom(Tail(s), sep, <<>>)
    ELSE SplitFrom(Tail(s), sep, Append(cur, Head(s)))

Split(s, sep) == SplitFrom(s, sep, <<>>)

\* text.split("\n").filter((line) => line.trim())
RECURSIVE NonBlank(_)
NonBlank(ls) ==
    IF ls = <<>> THEN <<>>
    ELSE IF Trim(Head(ls)) # <<>> THEN <<Head(ls)>> \o NonBlank(Tail(ls))
    ELSE NonBlank(Tail(ls))

SplitLines(text) == NonBlank(Split(text, "\n"))

\* /^\d+\./.test(s)
TestNumbered(s) ==
    \E k \in 1..(Len(s) - 1) :
        /\ \A j \in 1..k : IsDigit(s[j])
        /\ s[k + 1] = "."

\* the character class [-•\d.]
MarkerClass(c) == c = "-" \/ c = "BULLET" \/ c = "." \/ IsDigit(c)

\* line.replace(/^[-•\d.]\s*/, ""): one character of the class at the very
\* start of the line, then the white space that follows it
ReplaceMarker(line) ==
    IF line # <<>> /\ MarkerClass(Head(line))
    THEN TrimStart(Tail(line))
    ELSE line

(***************************************************************************)
(* JavaScript values as JSON.parse produces them.  A value is a record     *)
(* [t |-> type tag, v |-> payload].  An object's payload is the sequence   *)
(* of its members [k |-> key, v |-> value] in insertion order; a number's  *)
(* payload is its decimal expansion 0.d1d2..dn * 10^exp (no leading or     *)
(* trailing zero digit, no digit at all for 0 and -0), or an infinity.     *)
(***************************************************************************)
Undefined == [t |-> "undefined", v |-> <<>>]

JNull == [t |-> "null", v |-> <<>>]

JBool(b) == [t |-> "boolean", v |-> b]

JString(s) == [t |-> "string", v |-> s]

JArray(a) == [t |-> "array", v |-> a]

JObject(members) == [t |-> "object", v |-> members]

JNumber(inf, neg, digits, exp) ==
    [t |-> "number", v |-> [inf |-> inf, neg |-> neg, digits |-> digits, exp |-> exp]]

Zero == JNumber(FALSE, FALSE, <<>>, 0)

NegativeZero == JNumber(FALSE, TRUE, <<>>, 0)

\* the largest exponent magnitude the model computes exactly; every larger
\* one is far outside the range of a double and saturates here
ExpSaturation == 100000

RECURSIVE DigitsToNat(_, _)
DigitsToNat(ds, acc) ==
    IF ds = <<>> THEN acc
    ELSE LET n == acc * 10 + DigitVal(Head(ds))
         IN DigitsToNat(Tail(ds), IF n > ExpSaturation THEN ExpSaturation ELSE n)

RECURSIVE StripLeadingZeros(_)
StripLeadingZeros(ds) ==
    IF ds # <<>> /\ Head(ds) = 0 THEN StripLeadingZeros(Tail(ds)) ELSE ds

RECURSIVE StripTrailingZeros(_)
StripTrailingZeros(ds) ==
    IF ds # <<>> /\ ds[Len(ds)] = 0
    THEN StripTrailingZeros(SubSeq(ds, 1, Len(ds) - 1))
    ELSE ds

\* The Number a JSON number literal denotes.  A double holds magnitudes of
\* about 4.9e-324 to 1.8e308: a literal of 1e309 or more is Infinity, one
\* below 1e-324 is 0.  (The model's texts hold no literal with more than 15
\* significant digits or within a factor 10^17 of either end of the range,
\* where a double rounds the decimal value.)
NumberValue(neg, intDigits, fracDigits, expNeg, expDigits) ==
    LET M == [k \in 1..(Len(intDigits) + Len(fracDigits)) |->
                 IF k <= Len(intDigits) THEN DigitVal(intDigits[k])
                 ELSE DigitVal(fracDigits[k - Len(intDigits)])]
        noLead == StripLeadingZeros(M)
        lead == Len(M) - Len(noLead)
        D == StripTrailingZeros(noLead)
        E == (IF expNeg THEN -1 ELSE 1) * DigitsToNat(expDigits, 0)
        p == Len(intDigits) - lead + E
    IN IF D = <<>> THEN JNumber(FALSE, neg, <<>>, 0)
       ELSE IF p >= 310 THEN JNumber(TRUE, neg, <<>>, 0)
       ELSE IF p <= -324 THEN JNumber(FALSE, neg, <<>>, 0)
       ELSE JNumber(FALSE, neg, D, p)

(***************************************************************************)
(* JSON.parse (route.ts line 60): a recursive-descent parser of the JSON   *)
(* grammar of ECMA-404.  A parse returns [ok, val, pos]: whether a value   *)
(* was read, the value, and the position after it.  Not modelled: the      *)
(* \uXXXX escape, which no text of the model contains (JSON.stringify      *)
(* writes it only for control characters the model's alphabet lacks).      *)
(***************************************************************************)
ParseFail == [ok |-> FALSE, val |-> Undefined, pos |-> 0]

ParseOk(val, pos) == [ok |-> TRUE, val |-> val, pos |-> pos]

RECURSIVE SkipWs(_, _)
SkipWs(s, i) ==
    IF i <= Len(s) /\ s[i] \in JsonWhiteSpace THEN SkipWs(s, i + 1) ELSE i

RECURSIVE DigitsEnd(_, _)
DigitsEnd(s, i) ==
    IF i <= Len(s) /\ IsDigit(s[i]) THEN DigitsEnd(s, i + 1) ELSE i

\* the character an escape \c inside a string literal denotes
EscapeChars == {"\"", "\\", "/", "n", "t", "r", "b", "f"}

Unescape(c) ==
    CASE c = "n" -> "\n"
      [] c = "t" -> "\t"
      [] c = "r" -> "\r"
      [] c = "f" -> "\f"
      [] c = "b" -> "BACKSPACE"
      [] OTHER -> c

ControlChars == {"\n", "\t", "\r", "\f", "BACKSPACE"}

\* the rest of a string literal whose opening quote has been read
RECURSIVE ScanString(_, _, _)
ScanString(s, j, acc) ==
    IF j > Len(s) THEN ParseFail
    ELSE IF s[j] = "\"" THEN ParseOk(JString(acc), j + 1)
    ELSE IF s[j] = "\\"
         THEN IF j + 1 <= Len(s) /\ s[j + 1] \in EscapeChars
              THEN ScanString(s, j + 2, Append(acc, Unescape(s[j + 1])))
              ELSE ParseFail
    ELSE IF s[j] \in ControlChars THEN ParseFail
    ELSE ScanString(s, j + 1, Append(acc, s[j]))

\* number = [ "-" ] int [ "." digits ] [ ("e" | "E") [ "+" | "-" ] digits ]
ParseNumber(s, i) ==
    LET neg == s[i] = "-"
        a == IF neg THEN i + 1 ELSE i
        intEnd == IF a <= Len(s) /\ s[a] = "0" THEN a + 1 ELSE DigitsEnd(s, a)
        hasFrac == intEnd <= Len(s) /\ s[intEnd] = "."
        fracEnd == IF hasFrac THEN DigitsEnd(s, intEnd + 1) ELSE intEnd
        hasExp == fracEnd <= Len(s) /\ s[fracEnd] \in {"e", "E"}
        hasSign == hasExp /\ fracEnd + 1 <= Len(s) /\ s[fracEnd + 1] \in {"+", "-"}
        expStart == IF hasSign THEN fracEnd + 2 ELSE fracEnd + 1
        expEnd == IF hasExp THEN DigitsEnd(s, expStart) ELSE fracEnd
    IN IF intEnd = a THEN ParseFail
       ELSE IF hasFrac /\ fracEnd = intEnd + 1 THEN ParseFail
       ELSE IF hasExp /\ expEnd = expStart THEN ParseFail
       ELSE ParseOk(NumberValue(neg,
                                SubSeq(s, a, intEnd - 1),
                                IF hasFrac THEN SubSeq(s, intEnd + 1, fracEnd - 1) ELSE <<>>,
                                hasSign /\ s[fracEnd + 1] = "-",
                                IF hasExp THEN SubSeq(s, expStart, expEnd - 1) ELSE <<>>),
                    expEnd)

\* a later member with the same key replaces the value of the earlier one
SetMember(members, k, val) ==
    IF \E n \in 1..Len(members) : members[n].k = k
    THEN [n \in 1..Len(members) |->
             IF members[n].k = k THEN [k |-> k, v |-> val] ELSE members[n]]
    ELSE Append(members, [k |-> k, v |-> val])

RECURSIVE ParseValue(_, _)
RECURSIVE ParseElements(_, _, _)
RECURSIVE ParseMembers(_, _, _)

\* the value that starts at position i, which is not white space
ParseValue(s, i) ==
    IF i > Len(s) THEN ParseFail
    ELSE IF s[i] = "{"
         THEN LET j == SkipWs(s, i + 1)
              IN IF j <= Len(s) /\ s[j] = "}" THEN ParseOk(JObject(<<>>), j + 1)
                 ELSE ParseMembers(s, j, <<>>)
    ELSE IF s[i] = "["
         THEN LET j == SkipWs(s, i + 1)
              IN IF j <= Len(s) /\ s[j] = "]" THEN ParseOk(JArray(<<>>), j + 1)
                 ELSE ParseElements(s, j, <<>>)
    ELSE IF s[i] = "\"" THEN ScanString(s, i + 1, <<>>)
    ELSE IF s[i] = "-" \/ IsDigit(s[i]) THEN ParseNumber(s, i)
    ELSE IF MatchesAt(s, i, <<"n", "u", "l", "l">>) THEN ParseOk(JNull, i + 4)
    ELSE IF MatchesAt(s, i, <<"t", "r", "u", "e">>) THEN ParseOk(JBool(TRUE), i + 4)
    ELSE IF MatchesAt(s, i, <<"f", "a", "l", "s", "e">>) THEN ParseOk(JBool(FALSE), i + 5)
    ELSE ParseFail

\* the elements of an array from position i, after those in acc
ParseElements(s, i, acc) ==
    LET r == ParseValue(s, i)
        j == SkipWs(s, r.pos)
    IN IF ~r.ok \/ j > Len(s) THEN ParseFail
       ELSE IF s[j] = "," THEN ParseElements(s, SkipWs(s, j + 1), Append(acc, r.val))
       ELSE IF s[j] = "]" THEN ParseOk(JArray(Append(acc, r.val)), j + 1)
       ELSE ParseFail

\* the members of an object from position i, after those in acc
ParseMembers(s, i, acc) ==
    IF i > Len(s) \/ s[i] # "\"" THEN ParseFail
    ELSE LET key == ScanString(s, i + 1, <<>>)
             c == SkipWs(s, key.pos)
             r == ParseValue(s, SkipWs(s, c + 1))
             j == SkipWs(s, r.pos)
             acc2 == SetMember(acc, key.val.v, r.val)
         IN IF ~key.ok \/ c > Len(s) \/ s[c] # ":" THEN ParseFail
            ELSE IF ~r.ok \/ j > Len(s) THEN ParseFail
            ELSE IF s[j] = "," THEN ParseMembers(s, SkipWs(s, j + 1), acc2)
            ELSE IF s[j] = "}" THEN ParseOk(JObject(acc2), j + 1)
            ELSE ParseFail

\* JSON.parse(text): ok is FALSE where JSON.parse throws a SyntaxError
JSONParse(text) ==
    LET r == ParseValue(text, SkipWs(text, 1))
    IN IF r.ok /\ SkipWs(text, r.pos) = Len(text) + 1 THEN r ELSE ParseFail

(***************************************************************************)
(* JSON.stringify, by which NextResponse.json (route.ts line 223) writes   *)
(* the result.                                                             *)
(***************************************************************************)
RECURSIVE NatToDigits(_)
NatToDigits(n) ==
    IF n < 10 THEN <<DigitChars[n + 1]>>
    ELSE Append(NatToDigits(n \div 10), DigitChars[(n % 10) + 1])

DigitsToChars(ds) == [k \in 1..Len(ds) |-> DigitChars[ds[k] + 1]]

Zeros(n) == [k \in 1..n |-> "0"]

\* Number::toString of a finite non-zero number 0.digits * 10^exp
NumberToString(num) ==
    LET k == Len(num.digits)
        n == num.exp
        ds == DigitsToChars(num.digits)
        sign == IF num.neg THEN <<"-">> ELSE <<>>
        e == n - 1
        mantissa == IF k = 1 THEN ds ELSE <<ds[1], ".">> \o Drop(ds, 2)
    IN sign \o
       (IF k <= n /\ n <= 21 THEN ds \o Zeros(n - k)
        ELSE IF 0 < n /\ n <= 21 THEN SubSeq(ds, 1, n) \o <<".">> \o Drop(ds, n + 1)
        ELSE IF -6 < n /\ n <= 0 THEN <<"0", ".">> \o Zeros(-n) \o ds
        ELSE mantissa \o <<"e", IF e < 0 THEN "-" ELSE "+">>
                      \o NatToDigits(IF e < 0 THEN -e ELSE e))

\* QuoteJSONString: the escapes JSON.stringify writes
QuoteChar(c) ==
    CASE c = "\"" -> <<"\\", "\"">>
      [] c = "\\" -> <<"\\", "\\">>
      [] c = "\n" -> <<"\\", "n">>
      [] c = "\t" -> <<"\\", "t">>
      [] c = "\r" -> <<"\\", "r">>
      [] c = "\f" -> <<"\\", "f">>
      [] c = "BACKSPACE" -> <<"\\", "b">>
      [] OTHER -> <<c>>

RECURSIVE QuoteChars(_)
QuoteChars(s) ==
    IF s = <<>> THEN <<>> ELSE QuoteChar(Head(s)) \o QuoteChars(Tail(s))

Quote(s) == <<"\"">> \o QuoteChars(s) \o <<"\"">>

RECURSIVE Stringify(_)
RECURSIVE StringifyElements(_)
RECURSIVE StringifyMembers(_, _)

\* JSON.stringify of a value that is not undefined
Stringify(val) ==
    CASE val.t = "null" -> <<"n", "u", "l", "l">>
      [] val.t = "boolean" ->
            IF val.v THEN <<"t", "r", "u", "e">> ELSE <<"f", "a", "l", "s", "e">>
      [] val.t = "number" ->
            IF val.v.inf THEN <<"n", "u", "l", "l">>
            ELSE IF val.v.digits = <<>> THEN <<"0">>
            ELSE NumberToString(val.v)
      [] val.t = "string" -> Quote(val.v)
      [] val.t = "array" -> <<"[">> \o StringifyElements(val.v) \o <<"]">>
      [] val.t = "object" -> <<"{">> \o StringifyMembers(val.v, TRUE) \o <<"}">>

\* an undefined element of an array is written as null
StringifyElements(a) ==
    IF a = <<>> THEN <<>>
    ELSE (IF Head(a).t = "undefined" THEN <<"n", "u", "l", "l">> ELSE Stringify(Head(a)))
         \o (IF Len(a) > 1 THEN <<",">> ELSE <<>>)
         \o StringifyElements(Tail(a))

\* a member whose value is undefined is left out
StringifyMembers(ms, first) ==
    IF ms = <<>> THEN <<>>
    ELSE IF Head(ms).v.t = "undefined" THEN StringifyMembers(Tail(ms), first)
    ELSE (IF first THEN <<>> ELSE <<",">>)
         \o Quote(Head(ms).k) \o <<":">> \o Stringify(Head(ms).v)
         \o StringifyMembers(Tail(ms), FALSE)

(***************************************************************************)
(* The operators of JavaScript that the structured path applies to the     *)
(* parsed value (route.ts lines 61-66).                                    *)
(***************************************************************************)
\* ToBoolean: undefined, null, false, 0 and "" are falsy
Truthy(val) ==
    CASE val.t \in {"undefined", "null"} -> FALSE
      [] val.t = "boolean" -> val.v
      [] val.t = "number" -> val.v.inf \/ val.v.digits # <<>>
      [] val.t = "string" -> val.v # <<>>
      [] OTHER -> TRUE

\* reading a property of null or undefined throws a TypeError
PropertyThrows(val) == val.t \in {"undefined", "null"}

\* val[key] for a key that is no array index and no built-in property: the
\* member of an object, undefined on a primitive or an array
GetProp(val, key) ==
    IF val.t = "object" /\ \E n \in 1..Len(val.v) : val.v[n].k = key
    THEN val.v[CHOOSE n \in 1..Len(val.v) : val.v[n].k = key].v
    ELSE Undefined

OrNullish(a, b) == IF a.t \in {"undefined", "null"} THEN b ELSE a

\* a || b
Or(a, b) == IF Truthy(a) THEN a ELSE b

\* Array.isArray
IsArray(val) == val.t = "array"

(***************************************************************************)
(* The texts handed to the normalizer.  Lines of an unstructured reply are *)
(* drawn from LinePool, values of the fields of a structured reply from    *)
(* FieldLiterals; ExampleTexts are the replies the specification quotes    *)
(* and TopLevelTexts are JSON texts that are no record, or no JSON at all. *)
(* The comment before a text shows it between bars.                        *)
(***************************************************************************)
\* the number of lines of an unstructured reply
MaxLines == 2

\* the number of AnalysisResponse fields a structured reply carries
MaxFields == 2

LinePool ==
    { \* |UX Insights|
      <<"U", "X", " ", "I", "n", "s", "i", "g", "h", "t", "s">>,
      \* |- Good contrast|
      <<"-", " ", "G", "o", "o", "d", " ", "c", "o", "n", "t", "r", "a", "s", "t">>,
      \* |- Confusing nav|
      <<"-", " ", "C", "o", "n", "f", "u", "s", "i", "n", "g", " ", "n", "a", "v">>,
      \* |Best Practices|
      <<"B", "e", "s", "t", " ", "P", "r", "a", "c", "t", "i", "c", "e", "s">>,
      \* |1. Add alt text|
      <<"1", ".", " ", "A", "d", "d", " ", "a", "l", "t", " ", "t", "e", "x", "t">>,
      \* |Visual Design|
      <<"V", "i", "s", "u", "a", "l", " ", "D", "e", "s", "i", "g", "n">>,
      \* |  - Indented|
      <<" ", " ", "-", " ", "I", "n", "d", "e", "n", "t", "e", "d">>,
      \* |(bullet) Dot|
      <<"BULLET", " ", "D", "o", "t">>,
      \* |-|
      <<"-">>,
      \* |12. Twelve|
      <<"1", "2", ".", " ", "T", "w", "e", "l", "v", "e">>,
      \* |- Improve usability|
      <<"-", " ", "I", "m", "p", "r", "o", "v", "e", " ", "u", "s", "a", "b", "i", "l", "i", "t", "y">>,
      \* |Plain prose|
      <<"P", "l", "a", "i", "n", " ", "p", "r", "o", "s", "e">>,
      \* |Design UX|
      <<"D", "e", "s", "i", "g", "n", " ", "U", "X">>,
      \* |   |
      <<" ", " ", " ">>,
      \* |BEST design Practice|
      <<"B", "E", "S", "T", " ", "d", "e", "s", "i", "g", "n", " ", "P", "r", "a", "c", "t", "i", "c", "e">>,
      \* |1.|
      <<"1", ".">>,
      \* ||
      <<>>,
      \* |- say "hi"|
      <<"-", " ", "s", "a", "y", " ", "\"", "h", "i", "\"">> }

FieldLiterals ==
    { \* |null|
      <<"n", "u", "l", "l">>,
      \* |false|
      <<"f", "a", "l", "s", "e">>,
      \* |0|
      <<"0">>,
      \* |""|
      <<"\"", "\"">>,
      \* |[]|
      <<"[", "]">>,
      \* |["a"]|
      <<"[", "\"", "a", "\"", "]">>,
      \* |"abc"|
      <<"\"", "a", "b", "c", "\"">>,
      \* |5|
      <<"5">>,
      \* |1e999|
      <<"1", "e", "9", "9", "9">>,
      \* |[{"x":1,"y":2,"width":3,"height":4,"text":"t"}]|
      <<"[", "{", "\"", "x", "\"", ":", "1", ",", "\"", "y", "\"", ":", "2", ",", "\"", "w", "i", "d", "t", "h", "\"", ":", "3", ",", "\"", "h", "e", "i", "g", "h", "t", "\"", ":", "4", ",", "\"", "t", "e", "x", "t", "\"", ":", "\"", "t", "\"", "}", "]">> }

TopLevelTexts ==
    { \* |null|
      <<"n", "u", "l", "l">>,
      \* |true|
      <<"t", "r", "u", "e">>,
      \* |false|
      <<"f", "a", "l", "s", "e">>,
      \* |0|
      <<"0">>,
      \* |5|
      <<"5">>,
      \* |-0|
      <<"-", "0">>,
      \* |1e999|
      <<"1", "e", "9", "9", "9">>,
      \* |"abc"|
      <<"\"", "a", "b", "c", "\"">>,
      \* |[]|
      <<"[", "]">>,
      \* |["a"]|
      <<"[", "\"", "a", "\"", "]">>,
      \* | null\n|
      <<" ", "n", "u", "l", "l", "\n">>,
      \* |{}|
      <<"{", "}">>,
      \* |{"other":1}|
      <<"{", "\"", "o", "t", "h", "e", "r", "\"", ":", "1", "}">>,
      \* |{"visualDesign":[-0]}|
      <<"{", "\"", "v", "i", "s", "u", "a", "l", "D", "e", "s", "i", "g", "n", "\"", ":", "[", "-", "0", "]", "}">>,
      \* |{"annotations":[{"x":1e999}]}|
      <<"{", "\"", "a", "n", "n", "o", "t", "a", "t", "i", "o", "n", "s", "\"", ":", "[", "{", "\"", "x", "\"", ":", "1", "e", "9", "9", "9", "}", "]", "}">>,
      \* |{"bestPractices":-0}|
      <<"{", "\"", "b", "e", "s", "t", "P", "r", "a", "c", "t", "i", "c", "e", "s", "\"", ":", "-", "0", "}">>,
      \* |{"uxInsights":["a"],"uxInsights":0}|
      <<"{", "\"", "u", "x", "I", "n", "s", "i", "g", "h", "t", "s", "\"", ":", "[", "\"", "a", "\"", "]", ",", "\"", "u", "x", "I", "n", "s", "i", "g", "h", "t", "s", "\"", ":", "0", "}">>,
      \* |[1,|
      <<"[", "1", ",">>,
      \* |{"uxInsights":}|
      <<"{", "\"", "u", "x", "I", "n", "s", "i", "g", "h", "t", "s", "\"", ":", "}">>,
      \* |nul|
      <<"n", "u", "l">>,
      \* |0.50|
      <<"0", ".", "5", "0">>,
      \* |1.5e1|
      <<"1", ".", "5", "e", "1">> }

ExampleTexts ==
    { \* |UX Insights\n- Good contrast\n- Confusing nav\nBest Practices\n1. Add alt text|
      <<"U", "X", " ", "I", "n", "s", "i", "g", "h", "t", "s", "\n", "-", " ", "G", "o", "o", "d", " ", "c", "o", "n", "t", "r", "a", "s", "t", "\n", "-", " ", "C", "o", "n", "f", "u", "s", "i", "n", "g", " ", "n", "a", "v", "\n", "B", "e", "s", "t", " ", "P", "r", "a", "c", "t", "i", "c", "e", "s", "\n", "1", ".", " ", "A", "d", "d", " ", "a", "l", "t", " ", "t", "e", "x", "t">>,
      \* |This design looks fine overall.|
      <<"T", "h", "i", "s", " ", "d", "e", "s", "i", "g", "n", " ", "l", "o", "o", "k", "s", " ", "f", "i", "n", "e", " ", "o", "v", "e", "r", "a", "l", "l", ".">>,
      \* |{"uxInsights":["a"],"visualDesign":[],"bestPractices":["b"]}|
      <<"{", "\"", "u", "x", "I", "n", "s", "i", "g", "h", "t", "s", "\"", ":", "[", "\"", "a", "\"", "]", ",", "\"", "v", "i", "s", "u", "a", "l", "D", "e", "s", "i", "g", "n", "\"", ":", "[", "]", ",", "\"", "b", "e", "s", "t", "P", "r", "a", "c", "t", "i", "c", "e", "s", "\"", ":", "[", "\"", "b", "\"", "]", "}">>,
      \* |{"uxInsights":["a"],"visualDesign":["b"],"bestPractices":["c"],"annotations":[{"x":1,"y":2,"width":3,"height":4,"text":"t"}]}|
      <<"{", "\"", "u", "x", "I", "n", "s", "i", "g", "h", "t", "s", "\"", ":", "[", "\"", "a", "\"", "]", ",", "\"", "v", "i", "s", "u", "a", "l", "D", "e", "s", "i", "g", "n", "\"", ":", "[", "\"", "b", "\"", "]", ",", "\"", "b", "e", "s", "t", "P", "r", "a", "c", "t", "i", "c", "e", "s", "\"", ":", "[", "\"", "c", "\"", "]", ",", "\"", "a", "n", "n", "o", "t", "a", "t", "i", "o", "n", "s", "\"", ":", "[", "{", "\"", "x", "\"", ":", "1", ",", "\"", "y", "\"", ":", "2", ",", "\"", "w", "i", "d", "t", "h", "\"", ":", "3", ",", "\"", "h", "e", "i", "g", "h", "t", "\"", ":", "4", ",", "\"", "t", "e", "x", "t", "\"", ":", "\"", "t", "\"", "}", "]", "}">>,
      \* |Visual Design\n- Spacing\n  2. Align\nUsability\n(bullet) Labels|
      <<"V", "i", "s", "u", "a", "l", " ", "D", "e", "s", "i", "g", "n", "\n", "-", " ", "S", "p", "a", "c", "i", "n", "g", "\n", " ", " ", "2", ".", " ", "A", "l", "i", "g", "n", "\n", "U", "s", "a", "b", "i", "l", "i", "t", "y", "\n", "BULLET", " ", "L", "a", "b", "e", "l", "s">> }

Sections == <<"uxInsights", "visualDesign", "bestPractices">>

Fields == <<"uxInsights", "visualDesign", "bestPractices", "annotations">>

\* the name of a field as a JavaScript string
FieldKey(f) ==
    CASE f = "uxInsights" -> <<"u", "x", "I", "n", "s", "i", "g", "h", "t", "s">>
      [] f = "visualDesign" -> <<"v", "i", "s", "u", "a", "l", "D", "e", "s", "i", "g", "n">>
      [] f = "bestPractices" -> <<"b", "e", "s", "t", "P", "r", "a", "c", "t", "i", "c", "e", "s">>
      [] f = "annotations" -> <<"a", "n", "n", "o", "t", "a", "t", "i", "o", "n", "s">>

\* lines joined by "\n"
RECURSIVE JoinLines(_)
JoinLines(ls) ==
    IF ls = <<>> THEN <<>>
    ELSE IF Len(ls) = 1 THEN Head(ls)
    ELSE Head(ls) \o <<"\n">> \o JoinLines(Tail(ls))

LineTexts ==
    UNION { { JoinLines(ls) : ls \in [1..n -> LinePool] } : n \in 1..MaxLines }

Absent == <<"absent">>

\* the text {"f1":lit1,...} of a record with the fields f of Fields for which
\* choice[f] is a literal
RECURSIVE MembersText(_, _, _)
MembersText(choice, n, first) ==
    IF n > Len(Fields) THEN <<>>
    ELSE IF choice[Fields[n]] = Absent THEN MembersText(choice, n + 1, first)
    ELSE (IF first THEN <<>> ELSE <<",">>)
         \o Quote(FieldKey(Fields[n])) \o <<":">> \o choice[Fields[n]]
         \o MembersText(choice, n + 1, FALSE)

FieldSet == {Fields[n] : n \in 1..Len(Fields)}

RecordTexts ==
    { <<"{">> \o MembersText(choice, 1, TRUE) \o <<"}">> :
        choice \in { c \in [FieldSet -> FieldLiterals \cup {Absent}] :
                        Cardinality({f \in FieldSet : c[f] # Absent}) <= MaxFields } }

InputTexts == LineTexts \cup RecordTexts \cup TopLevelTexts \cup ExampleTexts

(***************************************************************************)
(* validateFile (route.ts lines 24-41).  A File is [type, size]; the       *)
(* outcome is a rejection reason or Null.                                  *)
(***************************************************************************)
SUPPORTED_FORMATS == <<"image/jpeg", "image/png", "image/gif", "image/webp">>

MAX_FILE_SIZE == 5 * 1024 * 1024

Null == "null"

FormatReason == "Unsupported file format. Please use JPEG, PNG, GIF, or WebP."

SizeReason == "File size exceeds 5MB limit."

\* Array.prototype.includes: strict equality with an element
ArrayIncludes(arr, x) == \E n \in 1..Len(arr) : arr[n] = x

validateFileFormatOnly(f) ==
    IF ~ArrayIncludes(SUPPORTED_FORMATS, f.type) THEN FormatReason ELSE Null

validateFileInclusive(f) ==
    IF ~ArrayIncludes(SUPPORTED_FORMATS, f.type) THEN FormatReason
    ELSE IF f.size >= MAX_FILE_SIZE THEN SizeReason
    ELSE Null

validateFileSizeFirst(f) ==
    IF f.size > MAX_FILE_SIZE THEN SizeReason
    ELSE IF ~ArrayIncludes(SUPPORTED_FORMATS, f.type) THEN FormatReason
    ELSE Null

validateFile(f) ==
    IF ~ArrayIncludes(SUPPORTED_FORMATS, f.type) THEN FormatReason
    ELSE IF f.size > MAX_FILE_SIZE THEN SizeReason
    ELSE Null

(***************************************************************************)
(* The page's own validateFile (Home, route.ts lines 270-286).             *)
(***************************************************************************)
Home_MAX_FILE_SIZE_10MB == 10 * 1024 * 1024

Home_MAX_FILE_SIZE == 5 * 1024 * 1024

Home_SUPPORTED_FORMATS == <<"image/jpeg", "image/png", "image/gif", "image/webp">>

Home_FormatReason == "Unsupported file format. Please use JPEG, PNG, GIF, or WebP."

Home_SizeReason == "File size exceeds 5MB limit."

Home_validateFile(f) ==
    IF ~ArrayIncludes(Home_SUPPORTED_FORMATS, f.type) THEN Home_FormatReason
    ELSE IF f.size > Home_MAX_FILE_SIZE THEN Home_SizeReason
    ELSE Null

(***************************************************************************)
(* parseOpenRouterResponse (route.ts lines 57-110), the pure parts.        *)
(***************************************************************************)
EmptyArray == JArray(<<>>)

\* the statements inside try { } (lines 58-66): JSON.parse and the return
TryBlockParseOnly == {"parse"}

TryBlock == {"parse", "build"}

\* where control goes when the statement at pc position at throws
OnThrow(at) == IF at \in TryBlock THEN "catch" ELSE "threw"

\* parsed.f || [] (lines 62-65)
FieldOrEmpty(val, f) == Or(GetProp(val, FieldKey(f)), EmptyArray)

\* the object literal of lines 61-66
Structured(val) == [f \in FieldSet |-> FieldOrEmpty(val, f)]

ResponseWithoutAnnotations ==
    [f \in FieldSet |-> IF f = "annotations" THEN Undefined ELSE EmptyArray]

\* lines 70-75
InitialResponse == [f \in FieldSet |-> EmptyArray]

KeywordUx == {<<"u", "x">>, <<"u", "s", "a", "b", "i", "l", "i", "t", "y">>}

KeywordVisual == {<<"v", "i", "s", "u", "a", "l">>, <<"d", "e", "s", "i", "g", "n">>}

KeywordBest == {<<"b", "e", "s", "t">>, <<"p", "r", "a", "c", "t", "i", "c", "e">>}

IncludesAny(s, subs) == \E sub \in subs : Includes(s, sub)

SectionOfBestFirst(lowerLine) ==
    IF IncludesAny(lowerLine, KeywordBest) THEN "bestPractices"
    ELSE IF IncludesAny(lowerLine, KeywordVisual) THEN "visualDesign"
    ELSE IF IncludesAny(lowerLine, KeywordUx) THEN "uxInsights"
    ELSE "none"

\* the section the keyword tests of lines 81-86 select, "none" if none does
SectionOf(lowerLine) ==
    IF IncludesAny(lowerLine, KeywordUx) THEN "uxInsights"
    ELSE IF IncludesAny(lowerLine, KeywordVisual) THEN "visualDesign"
    ELSE IF IncludesAny(lowerLine, KeywordBest) THEN "bestPractices"
    ELSE "none"

\* the condition of lines 87-91
IsMarked(line) ==
    \/ StartsWith(Trim(line), <<"-">>)
    \/ StartsWith(Trim(line), <<"BULLET">>)
    \/ TestNumbered(Trim(line))

\* line 92
CleanLine(line) == Trim(ReplaceMarker(line))

ScanLinePrepend(st, line) ==
    LET sec == SectionOf(ToLowerCase(line))
        cleanLine == CleanLine(line)
    IN IF sec # "none" THEN [st EXCEPT !.currentSection = sec]
       ELSE IF IsMarked(line)
                /\ cleanLine # <<>>
                /\ IsArray(st.response[st.currentSection])
            THEN [st EXCEPT !.response[st.currentSection] =
                                JArray(<<JString(cleanLine)>> \o @.v)]
       ELSE st

\* one iteration of the loop of lines 79-97 on the scanner's state
\* st = [response, currentSection]
ScanLine(st, line) ==
    LET sec == SectionOf(ToLowerCase(line))
        cleanLine == CleanLine(line)
    IN IF sec # "none" THEN [st EXCEPT !.currentSection = sec]
       ELSE IF IsMarked(line)
                /\ cleanLine # <<>>
                /\ IsArray(st.response[st.currentSection])
            THEN [st EXCEPT !.response[st.currentSection] =
                                JArray(Append(@.v, JString(cleanLine)))]
       ELSE st

DegenerateBare(text) == JString(text)

DegenerateTrimmed(text) == JArray(<<JString(Trim(text))>>)

\* [text] (line 105)
Degenerate(text) == JArray(<<JString(text)>>)

FinishWithoutFallback(resp, text) == resp

\* lines 99-108
Finish(resp, text) ==
    IF /\ Len(resp.uxInsights.v) = 0
       /\ Len(resp.visualDesign.v) = 0
       /\ Len(resp.bestPractices.v) = 0
    THEN [resp EXCEPT !.uxInsights = Degenerate(text)]
    ELSE resp

\* JSON.stringify of an AnalysisResponse object
Serialize(resp) ==
    Stringify(JObject([n \in 1..Len(Fields) |->
                          [k |-> FieldKey(Fields[n]), v |-> resp[Fields[n]]]]))

(***************************************************************************)
(* State.  The normalizer is run on text; pc is its position.  When it     *)
(* has returned, its result is serialized and it is run once more, on the  *)
(* serialized text (round 2).  jsonOk, path, thrown and appended record    *)
(* what the run did.  file is the validators' input, validationError the   *)
(* outcome of the route's validateFile and clientValidationError that of   *)
(* the page's.                                                             *)
(*                                                                         *)
(* The route's POST handler serves one request at a time: env holds the    *)
(* names of the environment variables that are set, req the request, spc   *)
(* the handler's position (its await points), reply what the upstream      *)
(* service answered and resp the handler's response.  bodyRead,            *)
(* upstreamCalled, normalizerCalls and postThrown record what the handler  *)
(* did for the request.                                                    *)
(*                                                                         *)
(* The page holds the React state of Home (selectedFile, previewUrl,       *)
(* isSubmitting, error, analysisResults); previews are the preview reads   *)
(* under way, fetches the page's requests that have not settled,           *)
(* submitted counts the page's requests and settled names the last one     *)
(* that settled.  A held result records the request it answers (req) and   *)
(* the file that request posted (of).                                      *)
(***************************************************************************)
VARIABLES text, pc, parsed, lines, idx, currentSection, response, result,
          jsonOk, path, thrown, appended, round, first,
          file, validationError, clientValidationError,
          env, req, spc, reply, resp,
          bodyRead, upstreamCalled, normalizerCalls, postThrown,
          selectedFile, previewUrl, isSubmitting, error, analysisResults,
          previews, fetches, submitted, settled

normVars == <<text, pc, parsed, lines, idx, currentSection, response, result,
              jsonOk, path, thrown, appended, round, first>>

fileVars == <<file, validationError, clientValidationError>>

postVars == <<env, req, spc, reply, resp,
              bodyRead, upstreamCalled, normalizerCalls, postThrown>>

pageVars == <<selectedFile, previewUrl, isSubmitting, error, analysisResults,
              previews, fetches, submitted, settled>>

otherVars == <<fileVars, postVars, pageVars>>

vars == <<normVars, fileVars, postVars, pageVars>>

Unset == [f \in FieldSet |-> Undefined]

NoFile == [type |-> "", size |-> 0]

Start(t, r, prev) ==
    /\ text = t
    /\ pc = "parse"
    /\ parsed = Undefined
    /\ lines = <<>>
    /\ idx = 0
    /\ currentSection = "uxInsights"
    /\ response = Unset
    /\ result = Unset
    /\ jsonOk = FALSE
    /\ path = "none"
    /\ thrown = "none"
    /\ appended = 0
    /\ round = r
    /\ first = prev

NormIdle ==
    /\ text = <<>>
    /\ pc = "idle"
    /\ parsed = Undefined
    /\ lines = <<>>
    /\ idx = 0
    /\ currentSection = "uxInsights"
    /\ response = Unset
    /\ result = Unset
    /\ jsonOk = FALSE
    /\ path = "none"
    /\ thrown = "none"
    /\ appended = 0
    /\ round = 0
    /\ first = Unset

FileIdle ==
    /\ file = NoFile
    /\ validationError = "unset"
    /\ clientValidationError = "unset"

\* a File of the browser: its name, its media type and its size in bytes
NoSelection == [name |-> "", type |-> "", size |-> 0]

\* no data URL
NoPreview == [type |-> "", data |-> ""]

NoRequest == [from |-> "none", id |-> 0, kind |-> "none", file |-> NoSelection]

NoReply == [outcome |-> "none", data |-> "none", text |-> <<>>]

NoResponse == [status |-> 0, error |-> "", result |-> Unset]

NoResults == [req |-> 0, of |-> NoSelection, value |-> JNull]

PostIdle ==
    /\ env = {}
    /\ req = NoRequest
    /\ spc = "idle"
    /\ reply = NoReply
    /\ resp = NoResponse
    /\ bodyRead = FALSE
    /\ upstreamCalled = FALSE
    /\ normalizerCalls = 0
    /\ postThrown = FALSE

PageIdle ==
    /\ selectedFile = NoSelection
    /\ previewUrl = NoPreview
    /\ isSubmitting = FALSE
    /\ error = Null
    /\ analysisResults = NoResults
    /\ previews = {}
    /\ fetches = {}
    /\ submitted = 0
    /\ settled = 0

Init ==
    /\ \E t \in InputTexts : Start(t, 1, Unset)
    /\ FileIdle
    /\ PostIdle
    /\ PageIdle

\* line 60: JSON.parse(text) returns, or throws a SyntaxError
Parse ==
    /\ pc = "parse"
    /\ LET r == JSONParse(text)
       IN IF r.ok
          THEN /\ parsed' = r.val
               /\ jsonOk' = TRUE
               /\ pc' = "build"
               /\ UNCHANGED thrown
          ELSE /\ thrown' = "SyntaxError"
               /\ pc' = OnThrow("parse")
               /\ UNCHANGED <<parsed, jsonOk>>
    /\ UNCHANGED <<text, lines, idx, currentSection, response, result, path,
                   appended, round, first, otherVars>>

\* lines 61-66: the result is built from parsed and returned, or reading
\* parsed.uxInsights throws a TypeError
Build ==
    /\ pc = "build"
    /\ IF PropertyThrows(parsed)
       THEN /\ thrown' = "TypeError"
            /\ pc' = OnThrow("build")
            /\ UNCHANGED <<result, path>>
       ELSE /\ result' = Structured(parsed)
            /\ path' = "structured"
            /\ pc' = "done"
            /\ UNCHANGED thrown
    /\ UNCHANGED <<text, parsed, lines, idx, currentSection, response, jsonOk,
                   appended, round, first, otherVars>>

\* lines 69-77: the catch block starts
Catch ==
    /\ pc = "catch"
    /\ lines' = SplitLines(text)
    /\ response' = InitialResponse
    /\ currentSection' = "uxInsights"
    /\ idx' = 1
    /\ path' = "fallback"
    /\ pc' = "scan"
    /\ UNCHANGED <<text, parsed, result, jsonOk, thrown, appended, round, first,
                   otherVars>>

\* lines 79-97: one line is scanned
Scan ==
    /\ pc = "scan"
    /\ idx <= Len(lines)
    /\ LET st == ScanLine([response |-> response, currentSection |-> currentSection],
                          lines[idx])
       IN /\ response' = st.response
          /\ currentSection' = st.currentSection
          /\ appended' = appended + (IF st.response # response THEN 1 ELSE 0)
    /\ idx' = idx + 1
    /\ UNCHANGED <<text, pc, parsed, lines, result, jsonOk, path, thrown, round,
                   first, otherVars>>

\* lines 99-108: the loop is over and the response is returned
Return ==
    /\ pc = "scan"
    /\ idx > Len(lines)
    /\ result' = Finish(response, text)
    /\ pc' = "done"
    /\ UNCHANGED <<text, parsed, lines, idx, currentSection, response, jsonOk,
                   path, thrown, appended, round, first, otherVars>>

\* line 223 and a second call: the returned result is serialized and the
\* normalizer is run on the serialized text
Renormalize ==
    /\ pc = "done"
    /\ round = 1
    /\ text' = Serialize(result)
    /\ pc' = "parse"
    /\ parsed' = Undefined
    /\ lines' = <<>>
    /\ idx' = 0
    /\ currentSection' = "uxInsights"
    /\ response' = Unset
    /\ result' = Unset
    /\ jsonOk' = FALSE
    /\ path' = "none"
    /\ thrown' = "none"
    /\ appended' = 0
    /\ round' = 2
    /\ first' = result
    /\ UNCHANGED otherVars

Next == Parse \/ Build \/ Catch \/ Scan \/ Return \/ Renormalize

Spec == Init /\ [][Next]_vars

(***************************************************************************)
(* The validator on its own: validateFile is applied to a file.            *)
(***************************************************************************)
MediaTypes ==
    { "image/jpeg", "image/png", "image/gif", "image/webp",
      "IMAGE/PNG", "Image/Jpeg", "image/jpg", "image/png; charset=binary",
      "image/svg+xml", "image/bmp", "image/*", "application/pdf", "text/plain", "" }

FileSizes ==
    { 0, 1, MAX_FILE_SIZE - 1, MAX_FILE_SIZE, MAX_FILE_SIZE + 1, 2 * MAX_FILE_SIZE }

InitValidate ==
    /\ NormIdle
    /\ file \in [type : MediaTypes, size : FileSizes]
    /\ validationError = "unset"
    /\ clientValidationError = "unset"
    /\ PostIdle
    /\ PageIdle

\* the route's validateFile is applied to the file
Validate ==
    /\ validationError = "unset"
    /\ validationError' = validateFile(file)
    /\ UNCHANGED <<file, clientValidationError, normVars, postVars, pageVars>>

\* the page's validateFile is applied to the file
HomeValidate ==
    /\ clientValidationError = "unset"
    /\ clientValidationError' = Home_validateFile(file)
    /\ UNCHANGED <<file, validationError, normVars, postVars, pageVars>>

NextValidate == Validate \/ HomeValidate

SpecValidate == InitValidate /\ [][NextValidate]_vars

(***************************************************************************)
(* Properties of the normalizer, checked under Spec.                       *)
(***************************************************************************)
HasField(val, f) == \E n \in 1..Len(val.v) : val.v[n].k = FieldKey(f)

IsStringArray(val) ==
    val.t = "array" /\ \A n \in 1..Len(val.v) : val.v[n].t = "string"

\* C1: for every input text the normalizer never raises an error to its
\* caller: no run reaches "threw", and a run in which a statement has thrown
\* is in the fallback or has returned a result.
C1_NeverRaises ==
    /\ pc # "threw"
    /\ thrown # "none" => pc \in {"catch", "scan", "done"}
    /\ pc = "done" => result # Unset

C1_Witness == pc = "done" /\ thrown = "TypeError" /\ path = "fallback"

\* C2: in the result each of uxInsights, visualDesign and bestPractices is a
\* sequence of strings, never a bare string, number or object.
C2_StringSequences ==
    pc = "done" => \A n \in 1..Len(Sections) : IsStringArray(result[Sections[n]])

\* C3 as stated: when the text parses as a record, each field of the result
\* is the record's value for the field if the field is present, and the empty
\* sequence if it is absent.
C3_PresentValueTaken ==
    (pc = "done" /\ jsonOk /\ parsed.t = "object") =>
        \A f \in FieldSet :
            result[f] = IF HasField(parsed, f) THEN GetProp(parsed, FieldKey(f))
                        ELSE EmptyArray

IsFalsyJson(val) ==
    \/ val = JNull
    \/ val = JBool(FALSE)
    \/ val = Zero
    \/ val = NegativeZero
    \/ val = JString(<<>>)

\* C3 as amended: when the text parses as a record, each field of the result
\* is the record's value for the field if the field is present and its value
\* is not one of null, false, 0 and "", and the empty sequence otherwise.
C3_TruthyValueTaken ==
    (pc = "done" /\ jsonOk /\ parsed.t = "object") =>
        \A f \in FieldSet :
            result[f] = IF HasField(parsed, f) /\ ~IsFalsyJson(GetProp(parsed, FieldKey(f)))
                        THEN GetProp(parsed, FieldKey(f))
                        ELSE EmptyArray

C3_Witness ==
    /\ pc = "done" /\ jsonOk /\ parsed.t = "object"
    /\ \E f \in FieldSet :
          /\ HasField(parsed, f)
          /\ IsFalsyJson(GetProp(parsed, FieldKey(f)))
          /\ result[f] = EmptyArray
    /\ \E f \in FieldSet :
          /\ HasField(parsed, f)
          /\ result[f] = GetProp(parsed, FieldKey(f))
          /\ result[f] # EmptyArray

\* C4: once JSON.parse has returned a value, whatever its kind, neither the
\* line scan nor the degenerate fallback is run.
C4_ShortCircuit ==
    jsonOk => pc \in {"build", "done"} /\ path # "fallback"

\* the item the claim C5 describes: the trimmed line without its whole
\* leading marker ("-", the bullet, or digits and a period) and the white
\* space after it
ClaimedItem(line) ==
    LET t == Trim(line)
    IN IF TestNumbered(t) THEN Trim(Drop(t, DigitsEnd(t, 1) + 1))
       ELSE Trim(Tail(t))

\* C5: a scanned line without keyword that begins, after trimming, with a
\* marker appends the line without the marker and the white space after it
\* to the current section, and appends nothing when nothing remains.
C5_MarkerStripped ==
    [][(/\ pc = "scan"
        /\ idx <= Len(lines)
        /\ SectionOf(ToLowerCase(lines[idx])) = "none"
        /\ IsMarked(lines[idx]))
       => response' =
            IF ClaimedItem(lines[idx]) = <<>> THEN response
            ELSE [response EXCEPT ![currentSection] =
                     JArray(Append(@.v, JString(ClaimedItem(lines[idx]))))]]_vars

\* C6: when the fallback is taken and the line scan appends no item, the
\* result is uxInsights = [text], the whole text unmodified, and visualDesign
\* and bestPractices are empty.
C6_DegenerateFallback ==
    (pc = "done" /\ path = "fallback" /\ appended = 0) =>
        /\ result.uxInsights = JArray(<<JString(text)>>)
        /\ result.visualDesign = EmptyArray
        /\ result.bestPractices = EmptyArray

C6_Witness ==
    /\ pc = "done" /\ path = "fallback" /\ appended = 0
    /\ Len(lines) = 2
    /\ result.uxInsights = JArray(<<JString(text)>>)

\* C7 as stated: normalizing the serialized result of a run gives the result
\* of that run, for every input text.
C7_Idempotent ==
    (pc = "done" /\ round = 2) => result = first

\* whether a value holds a number that JSON.stringify does not write back
\* exactly: an infinity (written null) or negative zero (written 0)
RECURSIVE HasUnwritable(_)
HasUnwritable(val) ==
    CASE val.t = "number" -> val.v.inf \/ val = NegativeZero
      [] val.t = "array" -> \E n \in 1..Len(val.v) : HasUnwritable(val.v[n])
      [] val.t = "object" -> \E n \in 1..Len(val.v) : HasUnwritable(val.v[n].v)
      [] OTHER -> FALSE

\* C7 as amended: normalizing the serialized result of a run gives the result
\* of that run, for every input text whose result holds no infinity and no
\* negative zero.
C7_IdempotentOnWritable ==
    (pc = "done" /\ round = 2 /\ \A f \in FieldSet : ~HasUnwritable(first[f]))
        => result = first

C7_Witness ==
    /\ pc = "done" /\ round = 2
    /\ path = "structured"
    /\ result = first
    /\ result.uxInsights.t = "array" /\ Len(result.uxInsights.v) = 2
    /\ result.bestPractices # EmptyArray

\* the keyword tests of the claim C8, each on the lower-cased line
HasUxKeyword(line) ==
    \/ Includes(ToLowerCase(line), <<"u", "x">>)
    \/ Includes(ToLowerCase(line), <<"u", "s", "a", "b", "i", "l", "i", "t", "y">>)

HasVisualKeyword(line) ==
    \/ Includes(ToLowerCase(line), <<"v", "i", "s", "u", "a", "l">>)
    \/ Includes(ToLowerCase(line), <<"d", "e", "s", "i", "g", "n">>)

HasBestKeyword(line) ==
    \/ Includes(ToLowerCase(line), <<"b", "e", "s", "t">>)
    \/ Includes(ToLowerCase(line), <<"p", "r", "a", "c", "t", "i", "c", "e">>)

\* new is old with exactly one string appended to the list of section sec
OneItemAppended(old, new, sec) ==
    /\ \A f \in FieldSet \ {sec} : new[f] = old[f]
    /\ new[sec].t = "array"
    /\ Len(new[sec].v) = Len(old[sec].v) + 1
    /\ SubSeq(new[sec].v, 1, Len(old[sec].v)) = old[sec].v
    /\ new[sec].v[Len(new[sec].v)].t = "string"

\* C8: scanning a line does exactly one of: switch the section, append one
\* item, nothing.  A line with a keyword (ux/usability, else visual/design,
\* else best/practice, in any case, anywhere in the line) only sets the
\* current section and appends nothing, marker or not; a line without
\* keyword leaves the section and appends at most one item to it; a line
\* without keyword and without marker changes nothing.
C8_OneEffectPerLine ==
    [][(pc = "scan" /\ idx <= Len(lines)) =>
        LET line == lines[idx]
            ux == HasUxKeyword(line)
            visual == ~ux /\ HasVisualKeyword(line)
            best == ~ux /\ ~visual /\ HasBestKeyword(line)
            keyword == ux \/ visual \/ best
        IN /\ ux => currentSection' = "uxInsights"
           /\ visual => currentSection' = "visualDesign"
           /\ best => currentSection' = "bestPractices"
           /\ keyword => response' = response
           /\ ~keyword => /\ currentSection' = currentSection
                          /\ \/ response' = response
                             \/ OneItemAppended(response, response', currentSection)
           /\ (~keyword /\ ~IsMarked(line)) => response' = response]_vars

\* a line with both a marker and keywords of two sections has been scanned
C8_Witness ==
    /\ pc = "scan" /\ idx = 3
    /\ IsMarked(lines[1]) /\ HasUxKeyword(lines[1])
    /\ HasUxKeyword(lines[2]) /\ HasVisualKeyword(lines[2])
    /\ currentSection = "uxInsights"
    /\ appended = 0

\* C9: a run that takes the fallback returns the empty sequence as its
\* annotations; a result with a non-empty annotations sequence comes from the
\* structured path.
C9_FallbackAnnotationsEmpty ==
    /\ (pc = "done" /\ path = "fallback") => result.annotations = EmptyArray
    /\ (pc = "done" /\ result.annotations.t = "array" /\ result.annotations.v # <<>>)
           => path = "structured"

C9_Witness ==
    /\ pc = "done" /\ path = "fallback" /\ appended > 0
    /\ result.annotations = EmptyArray

(***************************************************************************)
(* Properties of the validator, checked under SpecValidate.                *)
(***************************************************************************)
AllowList == {"image/jpeg", "image/png", "image/gif", "image/webp"}

\* C10: a file whose media type is not exactly one of the four allowed types
\* is rejected with the format reason, whatever its size, also when its size
\* is over the limit.
C10_FormatReasonFirst ==
    (validationError # "unset" /\ file.type \notin AllowList)
        => validationError = FormatReason

C10_Witness ==
    /\ validationError = FormatReason
    /\ file.type = "IMAGE/PNG"
    /\ file.size > MAX_FILE_SIZE

\* C11: a file whose media type is allowed and whose size is greater than
\* 5,242,880 bytes is rejected with the size reason.
C11_SizeReason ==
    (validationError # "unset" /\ file.type \in AllowList /\ file.size > 5242880)
        => validationError = SizeReason

C11_Witness ==
    /\ validationError = SizeReason
    /\ file.type = "image/webp"
    /\ file.size = 5242881

\* C12: a file whose media type is allowed and whose size is at most
\* 5,242,880 bytes is accepted, the sizes 5,242,880 and 0 included.
C12_Accepts ==
    (validationError # "unset" /\ file.type \in AllowList /\ file.size <= 5242880)
        => validationError = Null

C12_Witness ==
    /\ validationError = Null
    /\ file.type = "image/gif"
    /\ file.size = 5242880

\* C19: the route's validateFile and the page's validateFile give the same
\* outcome, with the same message, for every media type and size.
C19_SameValidator ==
    (validationError # "unset" /\ clientValidationError # "unset")
        => validationError = clientValidationError

C19_Witness ==
    /\ validationError = SizeReason
    /\ clientValidationError = SizeReason
    /\ file.size = 2 * 5242880

(***************************************************************************)
(* More properties of the normalizer, checked under Spec.                  *)
(***************************************************************************)
HasKeyword(line) ==
    HasUxKeyword(line) \/ HasVisualKeyword(line) \/ HasBestKeyword(line)

\* the section a keyword line names
NamedSection(line) ==
    IF HasUxKeyword(line) THEN "uxInsights"
    ELSE IF HasVisualKeyword(line) THEN "visualDesign"
    ELSE "bestPractices"

\* the section named by the last keyword line among the first k lines of ls,
\* uxInsights when there is none
RECURSIVE SectionAfter(_, _)
SectionAfter(ls, k) ==
    IF k = 0 THEN "uxInsights"
    ELSE IF HasKeyword(ls[k]) THEN NamedSection(ls[k])
    ELSE SectionAfter(ls, k - 1)

\* the items that the first k lines of ls give to section sec, in the order
\* of their lines
RECURSIVE ItemsOf(_, _, _)
ItemsOf(ls, k, sec) ==
    IF k = 0 THEN <<>>
    ELSE IF /\ ~HasKeyword(ls[k])
            /\ IsMarked(ls[k])
            /\ CleanLine(ls[k]) # <<>>
            /\ SectionAfter(ls, k - 1) = sec
         THEN Append(ItemsOf(ls, k - 1, sec), JString(CleanLine(ls[k])))
    ELSE ItemsOf(ls, k - 1, sec)

\* C17: in the fallback the section pointer starts at uxInsights and is the
\* section named by the most recent keyword line; each list holds the items
\* of the lines scanned under its section, in the order of those lines, and
\* a result that is not the degenerate one holds exactly these lists.
C17_SectionOrder ==
    /\ pc = "scan" =>
          /\ currentSection = SectionAfter(lines, idx - 1)
          /\ \A n \in 1..Len(Sections) :
                response[Sections[n]] = JArray(ItemsOf(lines, idx - 1, Sections[n]))
    /\ (pc = "done" /\ path = "fallback" /\ appended > 0) =>
          \A n \in 1..Len(Sections) :
              result[Sections[n]] = JArray(ItemsOf(lines, Len(lines), Sections[n]))

C17_Witness ==
    /\ pc = "done" /\ path = "fallback"
    /\ Len(lines) = 5
    /\ Len(result.visualDesign.v) = 2
    /\ Len(result.uxInsights.v) = 1
    /\ result.bestPractices = EmptyArray

(***************************************************************************)
(* parseOpenRouterResponse as one function of its text (lines 57-110): the *)
(* same statements as the actions Parse, Build, Catch, Scan and Return,    *)
(* run to the end.  The outcome is the returned value, or threw.           *)
(***************************************************************************)
RECURSIVE ScanLines(_, _)
\* the for loop of lines 79-97
ScanLines(st, ls) ==
    IF ls = <<>> THEN st ELSE ScanLines(ScanLine(st, Head(ls)), Tail(ls))

\* lines 69-108: the catch block
CatchBlock(t) ==
    Finish(ScanLines([response |-> InitialResponse, currentSection |-> "uxInsights"],
                     SplitLines(t)).response, t)

Returned(v) == [threw |-> FALSE, value |-> v]

Threw == [threw |-> TRUE, value |-> Unset]

parseOpenRouterResponse(t) ==
    LET r == JSONParse(t)
    IN IF ~r.ok
       THEN IF OnThrow("parse") = "catch" THEN Returned(CatchBlock(t)) ELSE Threw
       ELSE IF PropertyThrows(r.val)
            THEN IF OnThrow("build") = "catch" THEN Returned(CatchBlock(t)) ELSE Threw
            ELSE Returned(Structured(r.val))

(***************************************************************************)
(* The POST handler of /api/analyze (lines 112-231), one action per        *)
(* stretch between two awaits.  A request is direct (any HTTP client) or   *)
(* comes from the page.  Its body is malformed (formData() rejects), has   *)
(* no image part, or carries a file.                                       *)
(***************************************************************************)
\* the variable the handler reads the key from (line 115)
ApiKeyVariable == "NEXT_PUBLIC_OPENROUTER_API_KEY"

\* the variable the README tells the operator to set (README lines 53-60)
ReadmeKeyVariable == "OPENROUTER_API_KEY"

EnvNames == {ReadmeKeyVariable, ApiKeyVariable}

ApiKeyNeverMissing(e) == FALSE

\* !apiKey (lines 115-116)
ApiKeyMissing(e) == ApiKeyVariable \notin e

ConfigError == "Server configuration error: API key not set"

NoImageError == "No image file provided"

UpstreamError == "Failed to analyze image. Please try again later."

NoContentError == "Invalid response from AI service"

InternalError == "Internal server error during analysis"

\* NextResponse.json({ error }, { status })
ErrorResponse(status, message) ==
    [status |-> status, error |-> message, result |-> Unset]

\* NextResponse.json(analysisResult) (line 223)
OkResponse(analysisResult) ==
    [status |-> 200, error |-> "", result |-> analysisResult]

\* what awaiting the upstream fetch and reading a non-OK body can give
\* (lines 188-200)
FetchOutcomes == {"throws", "notok", "notokUnreadable", "ok"}

\* what openRouterResponse.json() can give (line 208): a rejection, null,
\* data without choices, a message without content, null content, or a
\* content text
DataKinds == {"throws", "null", "nochoices", "nocontent", "nullcontent", "text"}

\* openRouterData.choices?.[0]?.message?.content (line 211)
ContentOf(data, t) ==
    IF data = "text" THEN JString(t)
    ELSE IF data = "nullcontent" THEN JNull
    ELSE Undefined

\* !content (line 212)
ContentMissing(content) == ~Truthy(content)

DirectFiles ==
    { [name |-> "shot.png", type |-> "image/png", size |-> 1024],
      [name |-> "edge.webp", type |-> "image/webp", size |-> MAX_FILE_SIZE],
      [name |-> "big.png", type |-> "image/png", size |-> MAX_FILE_SIZE + 1],
      [name |-> "doc.pdf", type |-> "application/pdf", size |-> 1024] }

DirectRequests ==
    { [from |-> "direct", id |-> 0, kind |-> "malformed", file |-> NoSelection],
      [from |-> "direct", id |-> 0, kind |-> "noimage", file |-> NoSelection] }
    \cup { [from |-> "direct", id |-> 0, kind |-> "file", file |-> f] : f \in DirectFiles }

\* lines 112-125: the handler is called with request r and runs to its
\* first await
PostInvoke(r) ==
    /\ spc = "idle"
    /\ req' = r
    /\ reply' = NoReply
    /\ bodyRead' = FALSE
    /\ upstreamCalled' = FALSE
    /\ normalizerCalls' = 0
    /\ postThrown' = FALSE
    /\ IF ApiKeyMissing(env)
       THEN /\ resp' = ErrorResponse(500, ConfigError)
            /\ spc' = "responded"
       ELSE /\ resp' = NoResponse
            /\ spc' = "formData"
    /\ UNCHANGED env

\* a request of some HTTP client arrives
PostDirect ==
    /\ \E r \in DirectRequests : PostInvoke(r)
    /\ UNCHANGED <<normVars, fileVars, pageVars>>

\* lines 125-146: request.formData() settles; presence and validation
PostFormData ==
    /\ spc = "formData"
    /\ bodyRead' = TRUE
    /\ IF req.kind = "malformed"
       THEN /\ postThrown' = TRUE
            /\ resp' = ErrorResponse(500, InternalError)
            /\ spc' = "responded"
       ELSE /\ UNCHANGED postThrown
            /\ IF req.kind = "noimage"
               THEN /\ resp' = ErrorResponse(400, NoImageError)
                    /\ spc' = "responded"
               ELSE IF validateFile(req.file) # Null
                    THEN /\ resp' = ErrorResponse(400, validateFile(req.file))
                         /\ spc' = "responded"
                    ELSE /\ UNCHANGED resp
                         /\ spc' = "base64"
    /\ UNCHANGED <<env, req, reply, upstreamCalled, normalizerCalls>>
    /\ UNCHANGED <<normVars, fileVars, pageVars>>

\* lines 146-197: fileToBase64 settles (FileReader exists in the runtime or
\* not: lines 43-55); the upstream request is sent
PostBase64 ==
    /\ spc = "base64"
    /\ \E converted \in BOOLEAN :
          IF converted
          THEN /\ upstreamCalled' = TRUE
               /\ spc' = "fetch"
               /\ UNCHANGED <<resp, postThrown>>
          ELSE /\ postThrown' = TRUE
               /\ resp' = ErrorResponse(500, InternalError)
               /\ spc' = "responded"
               /\ UNCHANGED upstreamCalled
    /\ UNCHANGED <<env, req, reply, bodyRead, normalizerCalls>>
    /\ UNCHANGED <<normVars, fileVars, pageVars>>

\* lines 188-208: the upstream fetch settles
PostFetch ==
    /\ spc = "fetch"
    /\ \E o \in FetchOutcomes :
          /\ reply' = [reply EXCEPT !.outcome = o]
          /\ IF o = "ok"
             THEN /\ spc' = "json"
                  /\ UNCHANGED <<resp, postThrown>>
             ELSE /\ spc' = "responded"
                  /\ IF o = "notok"
                     THEN /\ resp' = ErrorResponse(502, UpstreamError)
                          /\ UNCHANGED postThrown
                     ELSE /\ resp' = ErrorResponse(500, InternalError)
                          /\ postThrown' = TRUE
    /\ UNCHANGED <<env, req, bodyRead, upstreamCalled, normalizerCalls>>
    /\ UNCHANGED <<normVars, fileVars, pageVars>>

\* lines 208-223: the upstream body is read, the content extracted and
\* normalized, for a content text drawn from texts
PostJson(texts) ==
    /\ spc = "json"
    /\ \E d \in DataKinds :
       \E t \in (IF d = "text" THEN texts ELSE {<<>>}) :
          /\ reply' = [reply EXCEPT !.data = d, !.text = t]
          /\ spc' = "responded"
          /\ IF d \in {"throws", "null"}
             THEN /\ postThrown' = TRUE
                  /\ resp' = ErrorResponse(500, InternalError)
                  /\ UNCHANGED normalizerCalls
             ELSE IF ContentMissing(ContentOf(d, t))
                  THEN /\ resp' = ErrorResponse(502, NoContentError)
                       /\ UNCHANGED <<postThrown, normalizerCalls>>
                  ELSE /\ normalizerCalls' = normalizerCalls + 1
                       /\ LET analysisResult == parseOpenRouterResponse(t)
                          IN IF analysisResult.threw
                             THEN /\ postThrown' = TRUE
                                  /\ resp' = ErrorResponse(500, InternalError)
                             ELSE /\ UNCHANGED postThrown
                                  /\ resp' = OkResponse(analysisResult.value)
    /\ UNCHANGED <<env, req, bodyRead, upstreamCalled>>
    /\ UNCHANGED <<normVars, fileVars, pageVars>>

\* the response reaches the client; the page's fetch (line 375) has its
\* response
PostDeliver ==
    /\ spc = "responded"
    /\ fetches' = { IF req.from = "page" /\ f.id = req.id
                    THEN [f EXCEPT !.stage = "answered", !.response = resp]
                    ELSE f : f \in fetches }
    /\ spc' = "idle"
    /\ req' = NoRequest
    /\ reply' = NoReply
    /\ resp' = NoResponse
    /\ bodyRead' = FALSE
    /\ upstreamCalled' = FALSE
    /\ normalizerCalls' = 0
    /\ postThrown' = FALSE
    /\ UNCHANGED <<env, selectedFile, previewUrl, isSubmitting, error,
                   analysisResults, previews, submitted, settled>>
    /\ UNCHANGED <<normVars, fileVars>>

\* the content texts of the upstream replies: the normalizer's input texts,
\* as an enumerated set
ReplyTexts == { t : t \in InputTexts }

PostJsonAny == PostJson(ReplyTexts)

InitPost ==
    /\ NormIdle
    /\ FileIdle
    /\ PageIdle
    /\ env \in SUBSET EnvNames
    /\ req = NoRequest
    /\ spc = "idle"
    /\ reply = NoReply
    /\ resp = NoResponse
    /\ bodyRead = FALSE
    /\ upstreamCalled = FALSE
    /\ normalizerCalls = 0
    /\ postThrown = FALSE

NextPost ==
    PostDirect \/ PostFormData \/ PostBase64 \/ PostFetch \/ PostJsonAny \/ PostDeliver

SpecPost == InitPost /\ [][NextPost]_vars

(***************************************************************************)
(* Properties of the POST handler, checked under SpecPost.                 *)
(***************************************************************************)
\* C16: in a deployment whose environment defines OPENROUTER_API_KEY, the
\* variable the README documents, POST passes the API-key check: it does
\* not answer with the 500 'API key not set' configuration error.
C16_DocumentedKeyAccepted ==
    ("OPENROUTER_API_KEY" \in env /\ spc = "responded") =>
        ~(/\ resp.status = 500
          /\ resp.error = "Server configuration error: API key not set")

\* C18: every upstream reply received with an OK status and a reply text,
\* the empty text included, is handed to the normalizer exactly once and
\* answered with status 200 and exactly the normalizer's result.
C18_ReplyTextNormalized ==
    (spc = "responded" /\ reply.outcome = "ok" /\ reply.data = "text") =>
        /\ normalizerCalls = 1
        /\ resp.status = 200
        /\ resp.result = parseOpenRouterResponse(reply.text).value

\* the request's file fails validation
Rejected(f) == f.type \notin AllowList \/ f.size > 5242880

\* C20: the handler answers with the first failure in a fixed order: a
\* missing API key gives 500 before the body is read; otherwise a missing
\* image gives 400; otherwise a validation rejection gives 400 with the
\* validator's reason; otherwise a non-OK upstream reply gives 502;
\* otherwise a reply without content gives 502; an exception on the way
\* gives 500; and 200 is returned only when all checks pass.
C20_FirstFailure ==
    spc = "responded" =>
        LET keyMissing == "NEXT_PUBLIC_OPENROUTER_API_KEY" \notin env
            noImage == req.kind = "noimage"
            rejected == req.kind = "file" /\ Rejected(req.file)
            notOk == reply.outcome = "notok"
            noContent == reply.data \in {"nochoices", "nocontent", "nullcontent"}
        IN /\ keyMissing =>
                 /\ resp.status = 500
                 /\ resp.error = "Server configuration error: API key not set"
                 /\ ~bodyRead
           /\ (~keyMissing /\ postThrown) =>
                 /\ resp.status = 500
                 /\ resp.error = "Internal server error during analysis"
           /\ (~keyMissing /\ ~postThrown /\ noImage) =>
                 /\ resp.status = 400
                 /\ resp.error = "No image file provided"
                 /\ ~upstreamCalled
           /\ (~keyMissing /\ ~postThrown /\ rejected) =>
                 /\ resp.status = 400
                 /\ resp.error = (IF req.file.type \notin AllowList
                                  THEN "Unsupported file format. Please use JPEG, PNG, GIF, or WebP."
                                  ELSE "File size exceeds 5MB limit.")
                 /\ ~upstreamCalled
           /\ (~keyMissing /\ ~postThrown /\ notOk) =>
                 /\ resp.status = 502
                 /\ resp.error = "Failed to analyze image. Please try again later."
           /\ (~keyMissing /\ ~postThrown /\ noContent) =>
                 /\ resp.status = 502
                 /\ resp.error = "Invalid response from AI service"
                 /\ normalizerCalls = 0
           /\ resp.status = 200 =>
                 /\ ~keyMissing
                 /\ bodyRead
                 /\ req.kind = "file"
                 /\ ~Rejected(req.file)
                 /\ upstreamCalled
                 /\ reply.outcome = "ok"
                 /\ reply.data = "text"
                 /\ ~postThrown
           /\ resp.status \in {200, 400, 500, 502}

C20_Witness ==
    /\ spc = "responded"
    /\ resp.status = 502
    /\ reply.outcome = "ok"
    /\ reply.data = "nocontent"
    /\ bodyRead
    /\ upstreamCalled

(***************************************************************************)
(* The page (Home, lines 259-707) together with the route.  Each action is *)
(* an event handler up to its first await, or the continuation after an    *)
(* await.  The guards are the conditions under which the JSX renders the   *)
(* control that fires the handler.                                         *)
(***************************************************************************)
MaxRequests == 2

\* the files the user can pick
PageFiles == DirectFiles

\* reader.result of readAsDataURL(file) (lines 288-295): a data URL made of
\* the file's media type and its content
PreviewUrl(f) == [type |-> f.type, data |-> f.name]

PreviewError == "Failed to preview image. Please try again."

AnalysisFailed == "Analysis failed"

FetchError == "Failed to fetch"

\* the drop zone and the file input are rendered (line 421)
DropZoneShown == selectedFile = NoSelection

AnalyzeNeverDisabled == FALSE

\* disabled={isSubmitting} (line 550)
AnalyzeDisabled == isSubmitting

\* analysisResults && !isSubmitting (lines 581 and 591), inside the branch
\* of a selected file
ResultsShown ==
    /\ selectedFile # NoSelection
    /\ analysisResults # NoResults
    /\ ~isSubmitting

\* response.ok (line 380)
Ok(r) == r.status >= 200 /\ r.status <= 299

\* await response.json() of a 200 response (line 385): the body that
\* NextResponse.json wrote, parsed
Received(r) == JSONParse(Serialize(r.result)).val

\* errorData.error || "Analysis failed" (lines 381-382)
ErrorMessage(r) == IF r.error = "" THEN AnalysisFailed ELSE r.error

AppTexts ==
    { \* ||
      <<>>,
      \* |{"uxInsights":["a"]}|
      <<"{", "\"", "u", "x", "I", "n", "s", "i", "g", "h", "t", "s", "\"", ":", "[", "\"", "a", "\"", "]", "}">>,
      \* |- Good contrast|
      <<"-", " ", "G", "o", "o", "d", " ", "c", "o", "n", "t", "r", "a", "s", "t">> }

\* lines 297-305 (handleFileInputChange 314-319, handleDrop 331-340):
\* handleFileSelect up to its await
HandleFileSelect ==
    /\ DropZoneShown
    /\ \E f \in PageFiles :
          /\ error' = Home_validateFile(f)
          /\ previews' = IF Home_validateFile(f) # Null THEN previews
                         ELSE previews \cup {f}
    /\ UNCHANGED <<selectedFile, previewUrl, isSubmitting, analysisResults,
                   fetches, submitted, settled>>
    /\ UNCHANGED <<normVars, fileVars, postVars>>

\* lines 306-309: the preview is read
PreviewLoaded ==
    /\ \E f \in previews :
          /\ selectedFile' = f
          /\ previewUrl' = PreviewUrl(f)
          /\ previews' = previews \ {f}
    /\ UNCHANGED <<isSubmitting, error, analysisResults, fetches, submitted,
                   settled>>
    /\ UNCHANGED <<normVars, fileVars, postVars>>

\* lines 310-311: reading the preview fails
PreviewFailed ==
    /\ \E f \in previews :
          /\ error' = PreviewError
          /\ previews' = previews \ {f}
    /\ UNCHANGED <<selectedFile, previewUrl, isSubmitting, analysisResults,
                   fetches, submitted, settled>>
    /\ UNCHANGED <<normVars, fileVars, postVars>>

HandleRemoveFileKeepsPreview ==
    /\ selectedFile # NoSelection
    /\ selectedFile' = NoSelection
    /\ error' = Null
    /\ analysisResults' = NoResults
    /\ UNCHANGED <<previewUrl, isSubmitting, previews, fetches, submitted, settled>>
    /\ UNCHANGED <<normVars, fileVars, postVars>>

\* lines 342-350
HandleRemoveFile ==
    /\ selectedFile # NoSelection
    /\ selectedFile' = NoSelection
    /\ previewUrl' = NoPreview
    /\ error' = Null
    /\ analysisResults' = NoResults
    /\ UNCHANGED <<isSubmitting, previews, fetches, submitted, settled>>
    /\ UNCHANGED <<normVars, fileVars, postVars>>

HandleClearResultsAndFile ==
    /\ ResultsShown
    /\ analysisResults' = NoResults
    /\ error' = Null
    /\ selectedFile' = NoSelection
    /\ previewUrl' = NoPreview
    /\ UNCHANGED <<isSubmitting, previews, fetches, submitted, settled>>
    /\ UNCHANGED <<normVars, fileVars, postVars>>

\* lines 352-355
HandleClearResults ==
    /\ ResultsShown
    /\ analysisResults' = NoResults
    /\ error' = Null
    /\ UNCHANGED <<selectedFile, previewUrl, isSubmitting, previews, fetches,
                   submitted, settled>>
    /\ UNCHANGED <<normVars, fileVars, postVars>>

\* lines 363-378: handleSubmit up to its await; the request is sent
Submit ==
    /\ selectedFile # NoSelection
    /\ submitted < MaxRequests
    /\ isSubmitting' = TRUE
    /\ error' = Null
    /\ submitted' = submitted + 1
    /\ fetches' = fetches \cup { [id |-> submitted + 1, file |-> selectedFile,
                                  stage |-> "sent", response |-> NoResponse] }

\* the Analyze button (lines 548-550)
HandleSubmit ==
    /\ selectedFile # NoSelection
    /\ ~AnalyzeDisabled
    /\ Submit
    /\ UNCHANGED <<selectedFile, previewUrl, analysisResults, previews, settled>>
    /\ UNCHANGED <<normVars, fileVars, postVars>>

\* lines 357-361, the Rerun button (lines 581-588)
HandleRerunAnalysis ==
    /\ ResultsShown
    /\ analysisResults' = NoResults
    /\ Submit
    /\ UNCHANGED <<selectedFile, previewUrl, previews, settled>>
    /\ UNCHANGED <<normVars, fileVars, postVars>>

\* the page's request reaches the route
PostFromPage ==
    /\ \E f \in fetches :
          /\ f.stage = "sent"
          /\ PostInvoke([from |-> "page", id |-> f.id, kind |-> "file",
                         file |-> f.file])
          /\ fetches' = (fetches \ {f}) \cup {[f EXCEPT !.stage = "taken"]}
    /\ UNCHANGED <<selectedFile, previewUrl, isSubmitting, error,
                   analysisResults, previews, submitted, settled>>
    /\ UNCHANGED <<normVars, fileVars>>

SubmitSettledWithoutFinally ==
    /\ \E f \in fetches :
          /\ f.stage = "answered"
          /\ IF Ok(f.response)
             THEN /\ analysisResults' = [req |-> f.id, of |-> f.file,
                                         value |-> Received(f.response)]
                  /\ UNCHANGED error
             ELSE /\ error' = ErrorMessage(f.response)
                  /\ UNCHANGED analysisResults
          /\ fetches' = fetches \ {f}
          /\ settled' = f.id
    /\ UNCHANGED <<selectedFile, previewUrl, isSubmitting, previews, submitted>>
    /\ UNCHANGED <<normVars, fileVars, postVars>>

\* lines 375-397: the fetch has its response; handleSubmit runs to its end
SubmitSettled ==
    /\ \E f \in fetches :
          /\ f.stage = "answered"
          /\ IF Ok(f.response)
             THEN /\ analysisResults' = [req |-> f.id, of |-> f.file,
                                         value |-> Received(f.response)]
                  /\ UNCHANGED error
             ELSE /\ error' = ErrorMessage(f.response)
                  /\ UNCHANGED analysisResults
          /\ isSubmitting' = FALSE
          /\ fetches' = fetches \ {f}
          /\ settled' = f.id
    /\ UNCHANGED <<selectedFile, previewUrl, previews, submitted>>
    /\ UNCHANGED <<normVars, fileVars, postVars>>

\* lines 375, 387-397: the fetch rejects (the request never reached the
\* route); handleSubmit runs to its end
SubmitFailed ==
    /\ \E f \in fetches :
          /\ f.stage = "sent"
          /\ error' = FetchError
          /\ isSubmitting' = FALSE
          /\ fetches' = fetches \ {f}
          /\ settled' = f.id
    /\ UNCHANGED <<selectedFile, previewUrl, analysisResults, previews, submitted>>
    /\ UNCHANGED <<normVars, fileVars, postVars>>

PostJsonApp == PostJson(AppTexts)

InitApp ==
    /\ NormIdle
    /\ FileIdle
    /\ env \in SUBSET EnvNames
    /\ req = NoRequest
    /\ spc = "idle"
    /\ reply = NoReply
    /\ resp = NoResponse
    /\ bodyRead = FALSE
    /\ upstreamCalled = FALSE
    /\ normalizerCalls = 0
    /\ postThrown = FALSE
    /\ PageIdle

NextApp ==
    \/ HandleFileSelect \/ PreviewLoaded \/ PreviewFailed
    \/ HandleRemoveFile \/ HandleClearResults
    \/ HandleSubmit \/ HandleRerunAnalysis
    \/ SubmitSettled \/ SubmitFailed
    \/ PostFromPage \/ PostDirect
    \/ PostFormData \/ PostBase64 \/ PostFetch \/ PostJsonApp \/ PostDeliver

SpecApp == InitApp /\ [][NextApp]_vars

(***************************************************************************)
(* Properties of the page and the route together, checked under SpecApp.   *)
(***************************************************************************)
\* C13: a file that validation rejects is never transmitted: on the page it
\* never becomes the selected file and is never posted, and the route
\* never calls the upstream service for a request whose file fails
\* validation.
C13_RejectedNeverTransmitted ==
    /\ selectedFile # NoSelection => ~Rejected(selectedFile)
    /\ \A f \in previews : ~Rejected(f)
    /\ \A f \in fetches : ~Rejected(f.file)
    /\ req.from = "page" => ~Rejected(req.file)
    /\ upstreamCalled => (req.kind = "file" /\ ~Rejected(req.file))

C13_Witness ==
    /\ error = "File size exceeds 5MB limit."
    /\ selectedFile = NoSelection
    /\ previews = {}
    /\ fetches = {}
    /\ spc = "responded"
    /\ req.kind = "file"
    /\ Rejected(req.file)
    /\ resp.status = 400
    /\ ~upstreamCalled

\* C14: at most one analysis request of the page is in flight at any time:
\* between the start of handleSubmit and its completion no handleSubmit or
\* handleRerunAnalysis starts, whatever the user does.
C14_OneInFlight ==
    /\ Cardinality(fetches) <= 1
    /\ isSubmitting <=> fetches # {}
    /\ \A f \in fetches : f.id = submitted

C14_Witness ==
    /\ submitted = 2
    /\ \E f \in fetches : selectedFile # NoSelection /\ selectedFile # f.file

\* C15: when a new request starts on the page, by Analyze or by Rerun, any
\* prior result is discarded before the request is issued, so that after
\* the request completes, with a result or with an error, the held result
\* is never one of an earlier request.
C15_PriorResultDiscarded ==
    /\ fetches # {} => analysisResults = NoResults
    /\ (settled > 0 /\ fetches = {} /\ analysisResults # NoResults) =>
           analysisResults.req = settled

(***************************************************************************)
(* A further property of the normalizer, checked under Spec.               *)
(***************************************************************************)
\* a non-empty list
NonEmptyList(v) == IsArray(v) /\ Len(v.v) > 0

\* C25: for every text that is not valid JSON the result has at least one
\* non-empty list among uxInsights, visualDesign and bestPractices; a
\* result whose three lists are all empty is returned only on the
\* structured path.
C25_FallbackNeverEmpty ==
    pc = "done" =>
        /\ ~jsonOk => \E n \in 1..Len(Sections) : NonEmptyList(result[Sections[n]])
        /\ (\A n \in 1..Len(Sections) : result[Sections[n]] = EmptyArray) =>
               path = "structured"

C25_Witness ==
    /\ pc = "done"
    /\ ~jsonOk
    /\ round = 1
    /\ appended = 0
    /\ Len(lines) = 2
    /\ result.uxInsights = JArray(<<JString(text)>>)
    /\ result.visualDesign = EmptyArray
    /\ result.bestPractices = EmptyArray

\* C22: handleClearResults sets analysisResults and error to null and
\* leaves selectedFile, previewUrl and isSubmitting unchanged;
\* handleRemoveFile sets selectedFile, previewUrl, error and analysisResults
\* to null; after either no result is held.
C22_ClearAndRemove ==
    [][ /\ HandleClearResults =>
              /\ analysisResults' = NoResults
              /\ error' = "null"
              /\ selectedFile' = selectedFile
              /\ previewUrl' = previewUrl
              /\ isSubmitting' = isSubmitting
        /\ HandleRemoveFile =>
              /\ selectedFile' = NoSelection
              /\ previewUrl' = NoPreview
              /\ error' = "null"
              /\ analysisResults' = NoResults ]_vars

\* handleRemoveFile has acted while a request is in flight
C22_Witness ==
    /\ selectedFile = NoSelection
    /\ previewUrl = NoPreview
    /\ analysisResults = NoResults
    /\ error = "null"
    /\ isSubmitting
    /\ settled = 1
    /\ submitted = 2

\* C23: whenever a result is held together with a selected file, the
\* result was produced by an analysis of that selected file.
C23_ResultOfSelectedFile ==
    (analysisResults # NoResults /\ selectedFile # NoSelection) =>
        analysisResults.of = selectedFile

\* C24: selectedFile is null exactly when previewUrl is null, and a
\* non-null previewUrl is the preview of the selected file.
C24_FileAndPreviewTogether ==
    /\ selectedFile = NoSelection <=> previewUrl = NoPreview
    /\ selectedFile # NoSelection =>
          /\ previewUrl.type = selectedFile.type
          /\ previewUrl.data = selectedFile.name

\* two selections were started before the first preview was read; the
\* first preview was read, the second selection is still under way
C24_Witness ==
    /\ selectedFile # NoSelection
    /\ previews # {}
    /\ \A f \in previews : f # selectedFile
    /\ previewUrl.data = selectedFile.name

(***************************************************************************)
(* The page and the route under fairness: the page's request reaches the   *)
(* route, the route's awaits settle and its response is delivered, and the *)
(* continuation of handleSubmit runs once the fetch has its response.      *)
(***************************************************************************)
\* lines 375-397: the step of SubmitSettled, told by what it does to fetches
\* and settled
Completion ==
    \E f \in fetches :
        /\ f.stage = "answered"
        /\ fetches' = fetches \ {f}
        /\ settled' = f.id

FairApp ==
    /\ SF_vars(PostFromPage)
    /\ WF_vars(PostFormData)
    /\ WF_vars(PostBase64)
    /\ WF_vars(PostFetch)
    /\ WF_vars(PostJsonApp)
    /\ WF_vars(PostDeliver)
    /\ WF_<<fetches, settled>>(Completion)

SpecAppFair == InitApp /\ [][NextApp]_vars /\ FairApp

\* the step in which the handleSubmit that posted f runs to its end
Settles(f) == f \in fetches /\ f \notin fetches' /\ settled' = f.id /\ settled # f.id

Succeeds(f) == f.stage = "answered" /\ f.response.status = 200

\* C21 as stated: when a handleSubmit ends isSubmitting is false; on success
\* analysisResults is the response and error is null, on failure error is a
\* message.
C21_ErrorNullOnSuccess ==
    [][ \A f \in fetches : Settles(f) =>
            /\ isSubmitting' = FALSE
            /\ IF Succeeds(f)
               THEN /\ analysisResults'.req = f.id
                    /\ analysisResults'.value = JSONParse(Serialize(f.response.result)).val
                    /\ error' = "null"
               ELSE error' # "null" ]_vars

\* C21, amended: every started handleSubmit eventually ends with
\* isSubmitting false; on success analysisResults is the response and error
\* is left as it is (null, unless a file selection or a failed preview set
\* it during the request); on failure error is a message and the held
\* result is left as it is.
C21_SubmitCompletes ==
    /\ isSubmitting ~> ~isSubmitting
    /\ [][ \A f \in fetches : Settles(f) =>
               /\ isSubmitting' = FALSE
               /\ IF Succeeds(f)
                  THEN /\ analysisResults'.req = f.id
                       /\ analysisResults'.value = JSONParse(Serialize(f.response.result)).val
                       /\ error' = error
                  ELSE /\ error' # "null"
                       /\ analysisResults' = analysisResults ]_vars

\* a handleSubmit has ended with success while error was set by a file
\* selection during the request
C21_Witness ==
    /\ ~isSubmitting
    /\ settled = 1
    /\ analysisResults.req = 1
    /\ error = "Unsupported file format. Please use JPEG, PNG, GIF, or WebP."

=============================================================================
